---- MODULE Spec2Model ----
(***************************************************************************)
(* Model of src/app/mcp/route.ts: the HOPX MCP route.                      *)
(*                                                                         *)
(* The file holds two route modules.  The first (lines 1-563) exports      *)
(* GET/POST/DELETE as handleRequest, which binds the request's bearer      *)
(* token in an AsyncLocalStorage and runs mcpHandler, whose tools call the *)
(* HOPX API through hopxFetch.  The second (lines 565-1147) exports        *)
(* GET/POST/DELETE as handler, whose tools answer with SDK usage text.     *)
(*                                                                         *)
(* One request carries one tool invocation.  A request advances through    *)
(* its suspension points: entry, tool start (up to `await fetch`), the     *)
(* fetch settling (up to `await response.json()`), the body parse          *)
(* settling, and the return of the response.                               *)
(***************************************************************************)
EXTENDS Integers, Sequences, FiniteSets, TLC

VARIABLES
  pc,          \* pc[r]: where request r is: idle, bound, fetch, json, done
  route,       \* route[r]: the export that received r: handleRequest or handler
  request,     \* request[r]: the inbound request (method, raw Authorization header)
  alsStore,    \* alsStore[r]: apiKeyStorage's store in r's async context
  invocation,  \* invocation[r]: the tool call in progress (tool, args, locals)
  calls,       \* calls[r]: the outbound fetch calls r has issued, in order
  response,    \* response[r]: the Response r's fetch resolved with
  result,      \* result[r]: what the tool handler completed with
  logLine      \* logLine[r]: the console.log record written for r

vars == <<pc, route, request, alsStore, invocation, calls, response, result, logLine>>

----------------------------------------------------------------------------
(* Bounds of the model. *)

\* Number of request slots (requests that can be in progress together).
NReq == 2

\* Largest explicit numeric argument (timeout, limit) drawn: 0..MaxNum.
MaxNum == 1

Req == 1..NReq

----------------------------------------------------------------------------
(* JavaScript values.  Each kind is a record with its own field, so values *)
(* of different kinds are unequal.                                         *)

Undefined == [undefined |-> TRUE]
Null == [null |-> TRUE]
Str(s) == [str |-> s]        \* a string the code never takes apart
Chars(c) == [chars |-> c]    \* a string as its sequence of characters
Num(n) == [num |-> n]
Bool(b) == [bool |-> b]
Obj(f) == [obj |-> f]        \* an object: field name -> value
EmptyObj == << >>            \* {} : no fields

\* A field of an object (destructuring / property read): undefined when absent.
Field(o, k) == IF k \in DOMAIN o THEN o[k] ELSE Undefined

\* JS truthiness, for `!x`, `if (x)`, `x || d`.
Truthy(v) ==
  /\ v # Undefined
  /\ v # Null
  /\ v # Num(0)
  /\ v # Str("")
  /\ v # Chars(<< >>)
  /\ v # Bool(FALSE)

\* x ?? d
Nullish(v, d) == IF v = Undefined \/ v = Null THEN d ELSE v

\* x || d
OrElse(v, d) == IF Truthy(v) THEN v ELSE d

\* How an async step ends.
Ret(v) == [ret |-> v]
Throw(e) == [throw |-> e]
IsThrow(o) == "throw" \in DOMAIN o

\* An Error object, by its message (a Str).
Err(m) == [message |-> m]

\* Parts of a template literal / a text.
Lit(s) == [lit |-> s]              \* literal characters
Interp(v) == [val |-> v]           \* ${v}
Encoded(v) == [uricomponent |-> v] \* encodeURIComponent(v)

\* JSON.stringify drops the fields of an object whose value is undefined.
DropUndefined(v) ==
  IF "obj" \in DOMAIN v
  THEN Obj([k \in {j \in DOMAIN v.obj : v.obj[j] # Undefined} |-> v.obj[k]])
  ELSE v
JSONstringify(v) == [json |-> DropUndefined(v)]
JSONpretty(v) == [pretty |-> DropUndefined(v)]   \* JSON.stringify(v, null, 2)

\* content: [{ type: "text", text }]
TextResult(parts) == [content |-> parts]

----------------------------------------------------------------------------
(* Strings the code takes apart: the Authorization header and the token.   *)

BearerPrefix == <<"B", "e", "a", "r", "e", "r", " ">>

StartsWith(s, p) == Len(s) >= Len(p) /\ SubSeq(s, 1, Len(p)) = p
Slice(s, n) == SubSeq(s, n + 1, Len(s))                          \* s.slice(n)
Substring(s, a, b) == SubSeq(s, a + 1, IF b < Len(s) THEN b ELSE Len(s))

\* Leading and trailing spaces removed: what a Headers object stores.
RECURSIVE TrimLeft(_)
TrimLeft(s) == IF s # << >> /\ Head(s) = " " THEN TrimLeft(Tail(s)) ELSE s
RECURSIVE TrimRight(_)
TrimRight(s) ==
  IF s # << >> /\ s[Len(s)] = " " THEN TrimRight(SubSeq(s, 1, Len(s) - 1)) ELSE s

\* A header read that gives the value as it was sent, surrounding spaces
\* kept.
HeadersGet_raw(req) ==
  IF req.authorization = Null THEN Null ELSE Chars(req.authorization.chars)

\* request.headers.get("Authorization"): null when the header is absent.
HeadersGet(req) ==
  IF req.authorization = Null THEN Null
  ELSE Chars(TrimRight(TrimLeft(req.authorization.chars)))

----------------------------------------------------------------------------
(* Credential context. *)

\* A read of the store that is not keyed by the caller's execution: the
\* store of some request in progress (a module-level variable would do this).
getApiKey_shared(r) ==
  LET bound == {q \in Req : alsStore[q] # Undefined}
  IN  IF bound = {} THEN Null
      ELSE Nullish(alsStore[CHOOSE q \in bound : \A p \in bound : q >= p], Null)

\* getApiKey(), called on request r's execution path.
getApiKey(r) == Nullish(alsStore[r], Null)

HOPX_API_BASE == "https://api.hopx.ai"

NoKeyMessage ==
  "No HOPX API key provided. Please configure your HOPX API key in the MCP server settings."

\* A Headers object keeps each name in lower case.
HeaderName(k) ==
  CASE k = "Authorization" -> "authorization"
    [] k = "Content-Type" -> "content-type"
    [] OTHER -> k

\* Headers merged as an object spread with the caller's last:
\* { Authorization, "Content-Type", ...options.headers }.
hopxHeaders_callerLast(options, apiKey) ==
  LET given == Field(options, "headers")
      base == IF given = Undefined THEN EmptyObj ELSE given
  IN  [k \in DOMAIN base \cup {"authorization", "content-type"} |->
         IF k \in DOMAIN base THEN base[k]
         ELSE IF k = "authorization" THEN <<Lit("Bearer "), Interp(apiKey)>>
         ELSE <<Lit("application/json")>>]

\* new Headers(options.headers) with Authorization and Content-Type set.
hopxHeaders(options, apiKey) ==
  LET given == Field(options, "headers")
      base == IF given = Undefined THEN EmptyObj ELSE given
      names == {HeaderName(k) : k \in DOMAIN base}
  IN  [n \in names \cup {"authorization", "content-type"} |->
         IF n = "authorization" THEN <<Lit("Bearer "), Interp(apiKey)>>
         ELSE IF n = "content-type" THEN <<Lit("application/json")>>
         ELSE base[CHOOSE k \in DOMAIN base : HeaderName(k) = n]]

\* hopxFetch that also sends a process-wide figure (how many requests are in
\* progress), as a log-correlation counter put on the wire would.
hopxFetch_stamped(r, endpoint, options) ==
  LET apiKey == getApiKey(r)
      h == hopxHeaders(options, apiKey)
      seq == <<Interp(Num(Cardinality({q \in Req : pc[q] # "idle"})))>>
  IN  IF ~Truthy(apiKey)
      THEN Throw(Err(Str(NoKeyMessage)))
      ELSE [fetch |->
              [url |-> <<Lit(HOPX_API_BASE)>> \o endpoint,
               method |-> Nullish(Field(options, "method"), Str("GET")),
               headers |-> [k \in DOMAIN h \cup {"x-request-seq"} |->
                              IF k = "x-request-seq" THEN seq ELSE h[k]],
               body |-> Field(options, "body")]]

\* hopxFetch up to its await: throws without a key, else the fetch it issues.
hopxFetch(r, endpoint, options) ==
  LET apiKey == getApiKey(r)
  IN  IF ~Truthy(apiKey)
      THEN Throw(Err(Str(NoKeyMessage)))
      ELSE [fetch |->
              [url |-> <<Lit(HOPX_API_BASE)>> \o endpoint,
               method |-> Nullish(Field(options, "method"), Str("GET")),
               headers |-> hopxHeaders(options, apiKey),
               body |-> Field(options, "body")]]
IsFetch(o) == "fetch" \in DOMAIN o

\* Response.ok
Ok(resp) == resp.status >= 200 /\ resp.status <= 299

\* A response body: JSON text (of a value) or text that is not JSON.
JsonText(v) == [jsontext |-> v]
RawText(s) == [raw |-> s]

\* The messages of the SyntaxError JSON.parse throws: on empty input, and on
\* input that is not JSON (the engine may quote a few leading characters).
EndOfInputMessage == "Unexpected end of JSON input"
SyntaxErrorMessage == "Unexpected token '<' is not valid JSON"

\* await response.json()
ResponseJson(resp) ==
  IF "jsontext" \in DOMAIN resp.body
  THEN Ret(resp.body.jsontext)
  ELSE IF resp.body.raw = ""
       THEN Throw(Err(Str(EndOfInputMessage)))
       ELSE Throw(Err(Str(SyntaxErrorMessage)))

\* A handler with no catch block: what was thrown leaves the handler.
CatchUncaught(label, o) == o

\* catch (error) { return text `${label}${error.message}` }
Catch(label, o) ==
  IF IsThrow(o)
  THEN Ret(TextResult(<<Lit(label), Interp(o.throw.message)>>))
  ELSE o
----------------------------------------------------------------------------
(* The tools of mcpHandler (first route).  Each tool is given by the       *)
(* request it builds, its two text labels, and its success formatting;     *)
(* the try / await / catch shape they share follows.                       *)

SandboxPath(id) == <<Lit("/v1/sandboxes/"), Interp(id)>>

\* URLSearchParams: set(k, String(v)) only `if (v)`; toString().
SearchParams(pairs) ==
  [query |-> SelectSeq(pairs, LAMBDA kv : Truthy(kv[2]))]

health_request(args) ==
  [endpoint |-> <<Lit("/health")>>, options |-> EmptyObj]

list_sandboxes_request(args) ==
  [endpoint |-> <<Lit("/v1/sandboxes?"),
                  SearchParams(<<<<"limit", Field(args, "limit")>>,
                                 <<"status", Field(args, "status")>>>>)>>,
   options |-> EmptyObj]

create_sandbox_request(args) ==
  [endpoint |-> <<Lit("/v1/sandboxes")>>,
   options |->
     [method |-> Str("POST"),
      body |-> JSONstringify(Obj(
        [template |-> Field(args, "template_id"),
         region |-> Field(args, "region"),
         timeout_seconds |-> Nullish(Field(args, "timeout_seconds"), Num(600)),
         internet_access |-> Nullish(Field(args, "internet_access"), Bool(TRUE)),
         env_vars |-> Field(args, "env_vars")]))]]

get_sandbox_request(args) ==
  [endpoint |-> SandboxPath(Field(args, "id")), options |-> EmptyObj]

delete_sandbox_request(args) ==
  [endpoint |-> SandboxPath(Field(args, "id")),
   options |-> [method |-> Str("DELETE")]]

list_templates_request(args) ==
  [endpoint |-> <<Lit("/v1/templates?"),
                  SearchParams(<<<<"limit", Field(args, "limit")>>>>)>>,
   options |-> EmptyObj]

execute_code_request(args) ==
  [endpoint |-> SandboxPath(Field(args, "sandbox_id")) \o <<Lit("/execute")>>,
   options |->
     [method |-> Str("POST"),
      body |-> JSONstringify(Obj(
        [code |-> Field(args, "code"),
         language |-> Nullish(Field(args, "language"), Str("python")),
         timeout |-> Nullish(Field(args, "timeout"), Num(30)),
         env |-> Field(args, "env"),
         working_dir |-> Field(args, "working_dir")]))]]

run_command_request(args) ==
  [endpoint |-> SandboxPath(Field(args, "sandbox_id")) \o <<Lit("/commands/run")>>,
   options |->
     [method |-> Str("POST"),
      body |-> JSONstringify(Obj(
        [command |-> Field(args, "command"),
         timeout |-> Nullish(Field(args, "timeout"), Num(30)),
         working_dir |-> Field(args, "working_dir"),
         env |-> Field(args, "env")]))]]

file_read_request(args) ==
  [endpoint |-> SandboxPath(Field(args, "sandbox_id"))
                  \o <<Lit("/files/read?path="), Encoded(Field(args, "path"))>>,
   options |-> EmptyObj]

file_write_request(args) ==
  [endpoint |-> SandboxPath(Field(args, "sandbox_id")) \o <<Lit("/files/write")>>,
   options |->
     [method |-> Str("POST"),
      body |-> JSONstringify(Obj(
        [path |-> Field(args, "path"), content |-> Field(args, "content")]))]]

file_list_request(args) ==
  LET dirPath == Nullish(Field(args, "path"), Str("/workspace"))
  IN  [endpoint |-> SandboxPath(Field(args, "sandbox_id"))
                      \o <<Lit("/files/list?path="), Encoded(dirPath)>>,
       options |-> EmptyObj]

file_delete_request(args) ==
  [endpoint |-> SandboxPath(Field(args, "sandbox_id")) \o <<Lit("/files/remove")>>,
   options |->
     [method |-> Str("DELETE"),
      body |-> JSONstringify(Obj([path |-> Field(args, "path")]))]]

get_system_metrics_request(args) ==
  [endpoint |-> SandboxPath(Field(args, "sandbox_id")) \o <<Lit("/metrics")>>,
   options |-> EmptyObj]

McpTools ==
  {"health", "list_sandboxes", "create_sandbox", "get_sandbox", "delete_sandbox",
   "list_templates", "execute_code", "run_command", "file_read", "file_write",
   "file_list", "file_delete", "get_system_metrics"}

ToolRequest(tool, args) ==
  CASE tool = "health" -> health_request(args)
    [] tool = "list_sandboxes" -> list_sandboxes_request(args)
    [] tool = "create_sandbox" -> create_sandbox_request(args)
    [] tool = "get_sandbox" -> get_sandbox_request(args)
    [] tool = "delete_sandbox" -> delete_sandbox_request(args)
    [] tool = "list_templates" -> list_templates_request(args)
    [] tool = "execute_code" -> execute_code_request(args)
    [] tool = "run_command" -> run_command_request(args)
    [] tool = "file_read" -> file_read_request(args)
    [] tool = "file_write" -> file_write_request(args)
    [] tool = "file_list" -> file_list_request(args)
    [] tool = "file_delete" -> file_delete_request(args)
    [] tool = "get_system_metrics" -> get_system_metrics_request(args)

\* The text a handler's `if (!response.ok)` branch starts with.
ErrorLabel(tool) ==
  CASE tool = "list_sandboxes" -> "Error listing sandboxes: "
    [] tool = "create_sandbox" -> "Error creating sandbox: "
    [] tool = "get_sandbox" -> "Error getting sandbox: "
    [] tool = "delete_sandbox" -> "Error deleting sandbox: "
    [] tool = "list_templates" -> "Error listing templates: "
    [] tool = "execute_code" -> "Error executing code: "
    [] tool = "run_command" -> "Error running command: "
    [] tool = "file_read" -> "Error reading file: "
    [] tool = "file_write" -> "Error writing file: "
    [] tool = "file_list" -> "Error listing files: "
    [] tool = "file_delete" -> "Error deleting file: "
    [] tool = "get_system_metrics" -> "Error getting metrics: "

\* The text a handler's catch block starts with.
FailedLabel(tool) ==
  CASE tool = "health" -> "HOPX API health check failed: "
    [] tool = "list_sandboxes" -> "Failed to list sandboxes: "
    [] tool = "create_sandbox" -> "Failed to create sandbox: "
    [] tool = "get_sandbox" -> "Failed to get sandbox: "
    [] tool = "delete_sandbox" -> "Failed to delete sandbox: "
    [] tool = "list_templates" -> "Failed to list templates: "
    [] tool = "execute_code" -> "Failed to execute code: "
    [] tool = "run_command" -> "Failed to run command: "
    [] tool = "file_read" -> "Failed to read file: "
    [] tool = "file_write" -> "Failed to write file: "
    [] tool = "file_list" -> "Failed to list files: "
    [] tool = "file_delete" -> "Failed to delete file: "
    [] tool = "get_system_metrics" -> "Failed to get metrics: "

\* delete_sandbox and file_delete read the body only when !response.ok;
\* every other tool awaits response.json() before it looks at response.ok.
ParsesOnlyOnError(tool) == tool \in {"delete_sandbox", "file_delete"}

\* health never looks at response.ok.
ChecksOk(tool) == tool # "health"

NullContentMessage == "Cannot read properties of null (reading 'content')"

\* typeof data.content === "string" ? data.content : JSON.stringify(data, null, 2)
file_read_success(data) ==
  IF data = Null
  THEN Throw(Err(Str(NullContentMessage)))
  ELSE IF "obj" \in DOMAIN data /\ "str" \in DOMAIN Field(data.obj, "content")
       THEN Ret(TextResult(<<Interp(data.obj.content)>>))
       ELSE Ret(TextResult(<<JSONpretty(data)>>))

health_success(apiKey, data) ==
  Ret(TextResult(<<Lit("HOPX API Status: "), JSONpretty(data),
                   Lit("\nAuthenticated: Yes (API key: "),
                   Interp(Chars(Substring(apiKey.chars, 0, 8))), Lit("...)")>>))

\* The success return of a handler; data is the parsed body (Undefined for
\* the two tools that do not parse it on success).
ToolSuccess(inv, data) ==
  LET tool == inv.tool
      args == inv.args
  IN  CASE tool = "health" -> health_success(inv.apiKey, data)
        [] tool = "create_sandbox" ->
             Ret(TextResult(<<Lit("Sandbox created successfully:\n"), JSONpretty(data)>>))
        [] tool = "delete_sandbox" ->
             Ret(TextResult(<<Lit("Sandbox "), Interp(Field(args, "id")),
                              Lit(" deleted successfully.")>>))
        [] tool = "execute_code" ->
             Ret(TextResult(<<Lit("Execution result:\n"), JSONpretty(data)>>))
        [] tool = "run_command" ->
             Ret(TextResult(<<Lit("Command result:\n"), JSONpretty(data)>>))
        [] tool = "file_read" -> file_read_success(data)
        [] tool = "file_write" ->
             Ret(TextResult(<<Lit("File written successfully: "),
                              Interp(Field(args, "path"))>>))
        [] tool = "file_delete" ->
             Ret(TextResult(<<Lit("File deleted successfully: "),
                              Interp(Field(args, "path"))>>))
        [] OTHER -> Ret(TextResult(<<JSONpretty(data)>>))

NoKeyText ==
  "Error: No HOPX API key provided. Please configure your API key in the MCP server settings."

\* A handler from its entry to its first await: a result, or the fetch issued.
ToolStart(r, inv) ==
  IF inv.tool = "health" /\ ~Truthy(inv.apiKey)
  THEN Ret(TextResult(<<Lit(NoKeyText)>>))
  ELSE LET rq == ToolRequest(inv.tool, inv.args)
       IN  Catch(FailedLabel(inv.tool), hopxFetch(r, rq.endpoint, rq.options))

AwaitJson == [await |-> "response.json"]
IsAwait(o) == "await" \in DOMAIN o

\* A handler resumed by its fetch settling (settled: Ret(response) or
\* Throw(error)): a result, or the await of response.json().
ToolAfterFetch(inv, settled) ==
  IF IsThrow(settled) THEN Catch(FailedLabel(inv.tool), settled)
  ELSE IF ParsesOnlyOnError(inv.tool) /\ Ok(settled.ret)
       THEN Catch(FailedLabel(inv.tool), ToolSuccess(inv, Undefined))
       ELSE AwaitJson

\* Handlers that all look at response.ok, health included, before they
\* format a success.
ToolAfterJson_allCheckOk(inv, resp, parsed) ==
  Catch(FailedLabel(inv.tool),
        IF IsThrow(parsed) THEN parsed
        ELSE IF ~Ok(resp)
             THEN Ret(TextResult(<<Lit("Error: "), JSONstringify(parsed.ret)>>))
             ELSE ToolSuccess(inv, parsed.ret))

\* A handler resumed by response.json() settling (parsed: Ret(data) or
\* Throw(error)).
ToolAfterJson(inv, resp, parsed) ==
  Catch(FailedLabel(inv.tool),
        IF IsThrow(parsed) THEN parsed
        ELSE IF ChecksOk(inv.tool) /\ ~Ok(resp)
             THEN Ret(TextResult(<<Lit(ErrorLabel(inv.tool)), JSONstringify(parsed.ret)>>))
             ELSE ToolSuccess(inv, parsed.ret))
----------------------------------------------------------------------------
(* The tools of handler (second route): each returns SDK usage text built  *)
(* from its arguments; none reads the credential or calls hopxFetch.       *)

ConnectLine(args) ==
  <<Lit("sandbox = Sandbox.connect(sandbox_id=\""), Interp(Field(args, "sandbox_id")),
    Lit("\")\n")>>
ConnectById(args) ==
  <<Lit("sandbox = Sandbox.connect(sandbox_id=\""), Interp(Field(args, "id")),
    Lit("\")\n")>>
EnvJson(args, k) == JSONstringify(OrElse(Field(args, k), Obj(EmptyObj)))

\* const m = mode || "isolated"; const lang = language || "python";
\* const t = timeout || 30; and the sdk_call of the branch m selects.
stub_execute_code(args) ==
  LET m == OrElse(Field(args, "mode"), Str("isolated"))
      lang == OrElse(Field(args, "language"), Str("python"))
      t == OrElse(Field(args, "timeout"), Num(30))
      run(fn) == <<Lit(fn), Lit("(code='''"), Interp(Field(args, "code")),
                   Lit("''', language=\""), Interp(lang), Lit("\", timeout="), Interp(t),
                   Lit(", env="), EnvJson(args, "env")>>
      sdk_call ==
        CASE m = Str("isolated") ->
               <<Lit("# Isolated mode - one-shot execution\nwith Sandbox.create(template=\""),
                 Interp(OrElse(Field(args, "template_name"), Str("code-interpreter"))),
                 Lit("\", region=\""), Interp(OrElse(Field(args, "region"), Str(""))),
                 Lit("\", timeout_seconds=600) as sandbox:\n    result = ")>>
               \o run("sandbox.run_code") \o <<Lit(")")>>
          [] m = Str("persistent") ->
               <<Lit("# Persistent mode - execute in existing sandbox\n")>>
               \o ConnectLine(args) \o <<Lit("result = ")>> \o run("sandbox.run_code")
               \o <<Lit(", working_dir=\""),
                    Interp(OrElse(Field(args, "working_dir"), Str("/tmp"))), Lit("\")")>>
          [] m = Str("rich") ->
               <<Lit("# Rich mode - capture matplotlib plots, DataFrames\n")>>
               \o ConnectLine(args) \o <<Lit("result = ")>> \o run("sandbox.run_code")
               \o <<Lit(", working_dir=\""),
                    Interp(OrElse(Field(args, "working_dir"), Str("/tmp"))),
                    Lit("\")\n# Access rich_outputs: result.rich_outputs")>>
          [] m = Str("background") ->
               <<Lit("# Background mode - non-blocking execution\n")>>
               \o ConnectLine(args) \o <<Lit("result = ")>>
               \o run("sandbox.run_code_background")
               \o <<Lit(", working_dir=\""),
                    Interp(OrElse(Field(args, "working_dir"), Str(""))),
                    Lit("\", name=\""), Interp(OrElse(Field(args, "name"), Str(""))),
                    Lit("\")")>>
          [] OTHER -> << >>
  IN  <<Lit("To execute code with HOPX SDK:\n\n")>> \o sdk_call
      \o <<Lit("\n\nRequires: hopx-ai SDK and HOPX_API_KEY")>>

stub_run_command(args) ==
  <<Lit("To run command, use HOPX SDK:\n")>> \o ConnectLine(args)
  \o <<Lit("result = sandbox.commands.run(command=\""), Interp(Field(args, "command")),
       Lit("\", timeout="), Interp(OrElse(Field(args, "timeout"), Num(30))),
       Lit(", working_dir=\""),
       Interp(OrElse(Field(args, "working_dir"), Str("/workspace"))),
       Lit("\", env="), EnvJson(args, "env"), Lit(")")>>

stub_file_list(args) ==
  <<Lit("To list files, use HOPX SDK:\n")>> \o ConnectLine(args)
  \o <<Lit("files = sandbox.files.list(\""),
       Interp(OrElse(Field(args, "path"), Str("/workspace"))),
       Lit("\")\n\nMax results: "), Interp(OrElse(Field(args, "max_results"), Num(1000)))>>

stub_create_sandbox(args) ==
  <<Lit("To create sandbox, use HOPX SDK:\nSandbox.create(template=\""),
    Interp(Field(args, "template_id")),
    Lit("\", region=\""), Interp(OrElse(Field(args, "region"), Str(""))),
    Lit("\", timeout_seconds="), Interp(OrElse(Field(args, "timeout_seconds"), Num(600))),
    Lit(", internet_access="), Interp(Nullish(Field(args, "internet_access"), Bool(TRUE))),
    Lit(", env_vars="), EnvJson(args, "env_vars"),
    Lit(")\n\nThis requires hopx-ai SDK and HOPX_API_KEY.")>>

stub_list_sandboxes(args) ==
  <<Lit("To list sandboxes, use HOPX SDK: Sandbox.list(status=\""),
    Interp(OrElse(Field(args, "status"), Str(""))),
    Lit("\", region=\""), Interp(OrElse(Field(args, "region"), Str(""))),
    Lit("\", limit="), Interp(OrElse(Field(args, "limit"), Num(100))),
    Lit("). This requires the hopx-ai Python SDK and HOPX_API_KEY environment variable.")>>

\* The text of a second-route tool.
StubText(tool, args) ==
  CASE tool = "health" ->
         <<Lit("HOPX MCP server is running. Note: This is a serverless deployment. Use with HOPX API key for actual sandbox operations.")>>
    [] tool = "list_sandboxes" -> stub_list_sandboxes(args)
    [] tool = "create_sandbox" -> stub_create_sandbox(args)
    [] tool = "get_sandbox" ->
         <<Lit("To get sandbox info, use HOPX SDK:\n")>> \o ConnectById(args)
         \o <<Lit("info = sandbox.get_info()")>>
    [] tool = "delete_sandbox" ->
         <<Lit("To delete sandbox, use HOPX SDK:\n")>> \o ConnectById(args)
         \o <<Lit("sandbox.kill()")>>
    [] tool = "update_sandbox_timeout" ->
         <<Lit("To update timeout, use HOPX SDK:\n")>> \o ConnectById(args)
         \o <<Lit("sandbox.set_timeout("), Interp(Field(args, "timeout_seconds")), Lit(")")>>
    [] tool = "resume_sandbox" ->
         <<Lit("To resume sandbox, use HOPX SDK:\n")>> \o ConnectById(args)
         \o <<Lit("sandbox.resume()")>>
    [] tool = "list_templates" ->
         <<Lit("To list templates, use HOPX SDK:\ntemplates = Sandbox.list_templates()\nCommon templates: 'code-interpreter', 'ubuntu', 'nodejs'\n\nLimit: "),
           Interp(OrElse(Field(args, "limit"), Num(10))), Lit(", Fields: "),
           Interp(OrElse(Field(args, "fields"), Str("id,name,description,category,language")))>>
    [] tool = "get_template" ->
         <<Lit("To get template info, use HOPX SDK:\ntemplate = Sandbox.get_template(name=\""),
           Interp(Field(args, "name")), Lit("\")")>>
    [] tool = "execute_code" -> stub_execute_code(args)
    [] tool = "execute_code_isolated" ->
         <<Lit("DEPRECATED: Use execute_code(mode='isolated') instead.\n\nSDK call:\nwith Sandbox.create(template=\""),
           Interp(OrElse(Field(args, "template_name"), Str("code-interpreter"))),
           Lit("\", region=\""), Interp(OrElse(Field(args, "region"), Str(""))),
           Lit("\") as sandbox:\n    result = sandbox.run_code(code='''"),
           Interp(Field(args, "code")), Lit("''', language=\""),
           Interp(OrElse(Field(args, "language"), Str("python"))), Lit("\", timeout="),
           Interp(OrElse(Field(args, "timeout"), Num(30))), Lit(")")>>
    [] tool = "execute_list_processes" ->
         <<Lit("To list processes, use HOPX SDK:\n")>> \o ConnectLine(args)
         \o <<Lit("processes = sandbox.list_processes()\n\nMax results: "),
              Interp(OrElse(Field(args, "max_results"), Num(100)))>>
    [] tool = "execute_kill_process" ->
         <<Lit("To kill process, use HOPX SDK:\n")>> \o ConnectLine(args)
         \o <<Lit("sandbox.kill_process(\""), Interp(Field(args, "process_id")), Lit("\")")>>
    [] tool = "run_command" -> stub_run_command(args)
    [] tool = "run_command_background" ->
         <<Lit("To run background command, use HOPX SDK:\n")>> \o ConnectLine(args)
         \o <<Lit("result = sandbox.commands.run(command=\""), Interp(Field(args, "command")),
              Lit("\", timeout="), Interp(OrElse(Field(args, "timeout"), Num(300))),
              Lit(", working_dir=\""),
              Interp(OrElse(Field(args, "working_dir"), Str("/workspace"))),
              Lit("\", env="), EnvJson(args, "env"), Lit(", background=True)")>>
    [] tool = "list_processes" ->
         <<Lit("To list system processes, use HOPX SDK:\n")>> \o ConnectLine(args)
         \o <<Lit("processes = sandbox.list_system_processes()\n\nMax results: "),
              Interp(OrElse(Field(args, "max_results"), Num(200)))>>
    [] tool = "file_read" ->
         <<Lit("To read file, use HOPX SDK:\n")>> \o ConnectLine(args)
         \o <<Lit("content = sandbox.files.read(\""), Interp(Field(args, "path")), Lit("\")")>>
    [] tool = "file_write" ->
         <<Lit("To write file, use HOPX SDK:\n")>> \o ConnectLine(args)
         \o <<Lit("sandbox.files.write(\""), Interp(Field(args, "path")), Lit("\", '''"),
              Interp(Field(args, "content")), Lit("''')")>>
    [] tool = "file_list" -> stub_file_list(args)
    [] tool = "file_exists" ->
         <<Lit("To check file existence, use HOPX SDK:\n")>> \o ConnectLine(args)
         \o <<Lit("exists = sandbox.files.exists(\""), Interp(Field(args, "path")), Lit("\")")>>
    [] tool = "file_remove" ->
         <<Lit("To remove file, use HOPX SDK:\n")>> \o ConnectLine(args)
         \o <<Lit("sandbox.files.remove(\""), Interp(Field(args, "path")), Lit("\")")>>
    [] tool = "file_mkdir" ->
         <<Lit("To create directory, use HOPX SDK:\n")>> \o ConnectLine(args)
         \o <<Lit("sandbox.files.mkdir(\""), Interp(Field(args, "path")), Lit("\")")>>
    [] tool = "ping_vm" ->
         <<Lit("To ping VM, use HOPX SDK:\n")>> \o ConnectLine(args)
         \o <<Lit("info = sandbox.get_agent_info()")>>
    [] tool = "get_vm_info" ->
         <<Lit("To get VM info, use HOPX SDK:\n")>> \o ConnectLine(args)
         \o <<Lit("info = sandbox.get_agent_info()")>>
    [] tool = "get_preview_url" ->
         <<Lit("To get preview URL, use HOPX SDK:\n")>> \o ConnectLine(args)
         \o <<Lit("preview_url = sandbox.get_preview_url("), Interp(Field(args, "port")),
              Lit(")\n\nNote: Service must bind to 0.0.0.0 (not localhost) to be accessible.")>>
    [] tool = "get_agent_url" ->
         <<Lit("To get agent URL, use HOPX SDK:\n")>> \o ConnectLine(args)
         \o <<Lit("agent_url = sandbox.agent_url")>>
    [] tool = "get_system_metrics" ->
         <<Lit("To get system metrics, use HOPX SDK:\n")>> \o ConnectLine(args)
         \o <<Lit("metrics = sandbox.get_metrics_snapshot()")>>
    [] tool = "env_get" ->
         <<Lit("To get environment variables, use HOPX SDK:\n")>> \o ConnectLine(args)
         \o <<Lit("env_vars = sandbox.env.get_all()")>>
    [] tool = "env_set" ->
         <<Lit("To set environment variables, use HOPX SDK:\n")>> \o ConnectLine(args)
         \o (IF Field(args, "merge") # Bool(FALSE)
             THEN <<Lit("sandbox.env.update("), JSONstringify(Field(args, "env_vars")), Lit(")")>>
             ELSE <<Lit("sandbox.env.set_all("), JSONstringify(Field(args, "env_vars")), Lit(")")>>)
    [] tool = "env_clear" ->
         <<Lit("To clear environment variables, use HOPX SDK:\n")>> \o ConnectLine(args)
         \o <<Lit("sandbox.env.set_all({})")>>
    [] tool = "cache_clear" ->
         <<Lit("To clear cache, use HOPX SDK:\n")>> \o ConnectLine(args)
         \o <<Lit("sandbox.cache.clear()")>>
    [] tool = "cache_stats" ->
         <<Lit("To get cache stats, use HOPX SDK:\n")>> \o ConnectLine(args)
         \o <<Lit("stats = sandbox.cache.stats()")>>

StubTools ==
  {"health", "list_sandboxes", "create_sandbox", "get_sandbox", "delete_sandbox",
   "update_sandbox_timeout", "resume_sandbox", "list_templates", "get_template",
   "execute_code", "execute_code_isolated", "execute_list_processes",
   "execute_kill_process", "run_command", "run_command_background", "list_processes",
   "file_read", "file_write", "file_list", "file_exists", "file_remove", "file_mkdir",
   "ping_vm", "get_vm_info", "get_preview_url", "get_agent_url", "get_system_metrics",
   "env_get", "env_set", "env_clear", "cache_clear", "cache_stats"}

\* A second-route handler: it returns at once.
StubHandler(inv) == Ret(TextResult(StubText(inv.tool, inv.args)))
----------------------------------------------------------------------------
(* Request entry points. *)

\* An extraction that does not look at the scheme: whatever follows the
\* first seven characters of any Authorization header.
ExtractApiKey_anyScheme(req) ==
  LET authHeader == HeadersGet(req)
  IN  IF authHeader # Null THEN Chars(Slice(authHeader.chars, 7)) ELSE Null

\* The token handleRequest takes from the Authorization header.
ExtractApiKey(req) ==
  LET authHeader == HeadersGet(req)
  IN  IF authHeader # Null /\ StartsWith(authHeader.chars, BearerPrefix)
      THEN Chars(Slice(authHeader.chars, 7))
      ELSE Null

\* A log record that carries the credential itself.
RequestLog_fullKey(req, apiKey) ==
  [hasAuth |-> Truthy(apiKey),
   apiKeyPrefix |-> <<Interp(apiKey)>>,
   method |-> req.method]

\* The record handleRequest logs.
RequestLog(req, apiKey) ==
  [hasAuth |-> Truthy(apiKey),
   apiKeyPrefix |-> IF Truthy(apiKey)
                    THEN <<Interp(Chars(Substring(apiKey.chars, 0, 8))), Lit("...")>>
                    ELSE <<Interp(Null)>>,
   method |-> req.method]

----------------------------------------------------------------------------
(* Inputs: requests, tool calls and backend outcomes. *)

TokenA == <<"h", "o", "p", "x", "_", "l", "i", "v", "e", "_", "A">>
TokenB == <<"h", "o", "p", "x", "_", "l", "i", "v", "e", "_", "B">>
TokenShort == <<"k", "1">>
Tokens == {TokenA, TokenB, TokenShort}

BearerOf(tok) == Chars(BearerPrefix \o tok)

\* Raw Authorization header values; Null: the request has no such header.
AuthHeaders ==
  {Null, BearerOf(TokenA), BearerOf(TokenB), BearerOf(TokenShort),
   Chars(BearerPrefix),
   Chars(<<"B", "a", "s", "i", "c", " ", "x">>),
   Chars(<<"b", "e", "a", "r", "e", "r", " ">> \o TokenA)}
FewAuthHeaders ==
  {Null, BearerOf(TokenA), BearerOf(TokenB), Chars(<<"B", "a", "s", "i", "c", " ", "x">>)}

\* request.method of the three exports.
Methods == {"GET", "POST", "DELETE"}

OptNum == {Undefined} \cup {Num(n) : n \in 0..MaxNum}
SandboxIds == {Str("sbx_1"), Str("sbx_2")}

Call(tool, args) == [tool |-> tool, args |-> args]

\* Valid tool calls of the first route.
McpCalls ==
  {Call("health", EmptyObj)}
  \cup {Call("list_sandboxes", [limit |-> l, status |-> s]) :
          l \in OptNum, s \in {Undefined, Str("running")}}
  \cup {Call("create_sandbox",
             [template_id |-> Str("code-interpreter"), region |-> g,
              timeout_seconds |-> t, internet_access |-> i]) :
          g \in {Undefined, Str("us-east")}, t \in OptNum, i \in {Undefined, Bool(FALSE)}}
  \cup {Call("get_sandbox", [id |-> i]) : i \in SandboxIds}
  \cup {Call("delete_sandbox", [id |-> i]) : i \in SandboxIds}
  \cup {Call("list_templates", [limit |-> l]) : l \in OptNum}
  \cup {Call("execute_code",
             [sandbox_id |-> Str("sbx_1"), code |-> Str("print(1)"),
              language |-> l, timeout |-> t]) :
          l \in {Undefined, Str("bash")}, t \in OptNum}
  \cup {Call("run_command",
             [sandbox_id |-> Str("sbx_1"), command |-> Str("ls"), timeout |-> t]) :
          t \in OptNum}
  \cup {Call("file_read", [sandbox_id |-> Str("sbx_1"), path |-> Str("/tmp/a.txt")])}
  \cup {Call("file_write", [sandbox_id |-> Str("sbx_1"), path |-> Str("/tmp/a.txt"),
                            content |-> Str("hello")])}
  \cup {Call("file_list", [sandbox_id |-> Str("sbx_1"), path |-> p]) :
          p \in {Undefined, Str("/tmp"), Str("")}}
  \cup {Call("file_delete", [sandbox_id |-> Str("sbx_1"), path |-> Str("/tmp/a.txt")])}
  \cup {Call("get_system_metrics", [sandbox_id |-> Str("sbx_1")])}
FewMcpCalls ==
  {Call("health", EmptyObj)} \cup {Call("get_sandbox", [id |-> i]) : i \in SandboxIds}

\* Valid tool calls of the second route.
StubCalls ==
  {Call(t, EmptyObj) : t \in {"health"}}
  \cup {Call("list_sandboxes", [limit |-> l]) : l \in OptNum}
  \cup {Call("create_sandbox",
             [template_id |-> Str("code-interpreter"), timeout_seconds |-> t]) :
          t \in OptNum}
  \cup {Call(t, [id |-> Str("sbx_1")]) :
          t \in {"get_sandbox", "delete_sandbox", "resume_sandbox"}}
  \cup {Call("update_sandbox_timeout", [id |-> Str("sbx_1"), timeout_seconds |-> Num(0)])}
  \cup {Call("list_templates", [limit |-> l]) : l \in OptNum}
  \cup {Call("get_template", [name |-> Str("code-interpreter")])}
  \cup {Call("execute_code",
             [code |-> Str("print(1)"), mode |-> m, sandbox_id |-> Str("sbx_1"),
              timeout |-> t]) :
          m \in {Undefined, Str("isolated"), Str("persistent"), Str("rich"),
                 Str("background")},
          t \in OptNum}
  \cup {Call("execute_code_isolated", [code |-> Str("print(1)"), timeout |-> t]) :
          t \in OptNum}
  \cup {Call(t, [sandbox_id |-> Str("sbx_1"), max_results |-> n]) :
          t \in {"execute_list_processes", "list_processes"}, n \in OptNum}
  \cup {Call("execute_kill_process", [sandbox_id |-> Str("sbx_1"), process_id |-> Str("p1")])}
  \cup {Call(t, [sandbox_id |-> Str("sbx_1"), command |-> Str("ls"), timeout |-> n]) :
          t \in {"run_command", "run_command_background"}, n \in OptNum}
  \cup {Call(t, [sandbox_id |-> Str("sbx_1"), path |-> Str("/tmp/a.txt")]) :
          t \in {"file_read", "file_exists", "file_remove", "file_mkdir"}}
  \cup {Call("file_write", [sandbox_id |-> Str("sbx_1"), path |-> Str("/tmp/a.txt"),
                            content |-> Str("hello")])}
  \cup {Call("file_list", [sandbox_id |-> Str("sbx_1"), path |-> p]) :
          p \in {Undefined, Str("/tmp"), Str("")}}
  \cup {Call("get_preview_url", [sandbox_id |-> Str("sbx_1"), port |-> Num(0)])}
  \cup {Call(t, [sandbox_id |-> Str("sbx_1")]) :
          t \in {"ping_vm", "get_vm_info", "get_agent_url", "get_system_metrics",
                 "env_get", "env_clear", "cache_clear", "cache_stats"}}
  \cup {Call("env_set", [sandbox_id |-> Str("sbx_1"),
                         env_vars |-> Obj([A |-> Str("1")]), merge |-> m]) :
          m \in {Undefined, Bool(FALSE)}}
FewStubCalls == {Call("get_sandbox", [id |-> Str("sbx_1")])}

\* What the backend answers.
SandboxBody == Obj([id |-> Str("sbx_1"), status |-> Str("running")])
ErrorBody == Obj([error |-> Str("not found")])
FileBody == Obj([content |-> Str("hello")])
HtmlPage == "<html><body><h1>502 Bad Gateway</h1></body></html>"
Bodies ==
  {JsonText(SandboxBody), JsonText(ErrorBody), JsonText(FileBody), JsonText(Null),
   RawText(HtmlPage), RawText("")}
Statuses == {200, 401, 404, 500}
Resp(s, b) == [status |-> s, body |-> b]
FetchFailed == Err(Str("fetch failed"))

\* How a fetch settles: rejected (transport failure) or resolved with a response.
Outcomes == {Throw(FetchFailed)} \cup {Ret(Resp(s, b)) : s \in Statuses, b \in Bodies}
FewOutcomes ==
  {Throw(FetchFailed), Ret(Resp(200, JsonText(SandboxBody))),
   Ret(Resp(404, JsonText(ErrorBody))), Ret(Resp(500, RawText(HtmlPage)))}

\* What a caller of hopxFetch can pass: endpoint, and options with or
\* without method, body and headers of its own (names in either spelling).
CallerEndpoints == {<<Lit("/health")>>, SandboxPath(Str("sbx_1"))}
CallerHeaders ==
  {Undefined,
   [Authorization |-> <<Lit("Basic dXNlcjpwYXNz")>>],
   [authorization |-> <<Lit("Bearer "), Interp(Chars(TokenB))>>],
   [k \in {"Content-Type", "x-trace"} |->
      IF k = "Content-Type" THEN <<Lit("text/plain")>> ELSE <<Lit("1")>>],
   [k \in {"content-type"} |-> <<Lit("text/plain")>>],
   [authorization |-> <<Lit("Basic dXNlcjpwYXNz")>>,
    accept |-> <<Lit("application/json")>>]}
CallerOptions ==
  {EmptyObj}
  \cup {[headers |-> h, method |-> m] :
          h \in CallerHeaders, m \in {Undefined, Str("POST")}}

----------------------------------------------------------------------------
(* The state machine. *)

Init ==
  /\ pc = [r \in Req |-> "idle"]
  /\ route = [r \in Req |-> "none"]
  /\ request = [r \in Req |-> Undefined]
  /\ alsStore = [r \in Req |-> Undefined]
  /\ invocation = [r \in Req |-> Undefined]
  /\ calls = [r \in Req |-> << >>]
  /\ response = [r \in Req |-> Undefined]
  /\ result = [r \in Req |-> Undefined]
  /\ logLine = [r \in Req |-> Undefined]

\* handleRequest(request) up to mcpHandler(request) running inside
\* apiKeyStorage.run(apiKey, ...); method is request.method.
HandleRequest(r, method, headers) ==
  /\ pc[r] = "idle"
  /\ \E h \in headers :
       LET req == [method |-> method, authorization |-> h]
           apiKey == ExtractApiKey(req)
       IN  /\ request' = [request EXCEPT ![r] = req]
           /\ logLine' = [logLine EXCEPT ![r] = RequestLog(req, apiKey)]
           /\ alsStore' = [alsStore EXCEPT ![r] = apiKey]
  /\ route' = [route EXCEPT ![r] = "handleRequest"]
  /\ pc' = [pc EXCEPT ![r] = "bound"]
  /\ UNCHANGED <<invocation, calls, response, result>>

\* The exports of the first route.
GET(r, headers) == HandleRequest(r, "GET", headers)
POST(r, headers) == HandleRequest(r, "POST", headers)
DELETE(r, headers) == HandleRequest(r, "DELETE", headers)

\* GET / POST / DELETE of the second route: handler(request); no store is bound.
Handler(r, methods, headers) ==
  /\ pc[r] = "idle"
  /\ \E m \in methods, h \in headers :
       request' = [request EXCEPT ![r] = [method |-> m, authorization |-> h]]
  /\ route' = [route EXCEPT ![r] = "handler"]
  /\ pc' = [pc EXCEPT ![r] = "bound"]
  /\ UNCHANGED <<alsStore, invocation, calls, response, result, logLine>>

\* A handler that does not await its call: it issues the fetch and returns
\* its success text at once, the call still pending.
InvokeMcpTool_noAwait(r, catalogue) ==
  /\ pc[r] = "bound"
  /\ route[r] = "handleRequest"
  /\ \E c \in catalogue :
       LET inv == [tool |-> c.tool, args |-> c.args,
                   apiKey |-> IF c.tool = "health" THEN getApiKey(r) ELSE Undefined]
           o == ToolStart(r, inv)
       IN  /\ invocation' = [invocation EXCEPT ![r] = inv]
           /\ calls' = [calls EXCEPT ![r] = IF IsFetch(o) THEN Append(@, o.fetch) ELSE @]
           /\ result' = [result EXCEPT ![r] =
                           IF IsFetch(o)
                           THEN Catch(FailedLabel(inv.tool), ToolSuccess(inv, Undefined))
                           ELSE o]
  /\ pc' = [pc EXCEPT ![r] = "done"]
  /\ UNCHANGED <<route, request, alsStore, response, logLine>>

\* The transport calls a tool of mcpHandler: the handler runs to its first
\* await (the fetch inside hopxFetch) or to its return.
InvokeMcpTool(r, catalogue) ==
  /\ pc[r] = "bound"
  /\ route[r] = "handleRequest"
  /\ \E c \in catalogue :
       LET inv == [tool |-> c.tool, args |-> c.args,
                   apiKey |-> IF c.tool = "health" THEN getApiKey(r) ELSE Undefined]
           o == ToolStart(r, inv)
       IN  /\ invocation' = [invocation EXCEPT ![r] = inv]
           /\ IF IsFetch(o)
              THEN /\ calls' = [calls EXCEPT ![r] = Append(@, o.fetch)]
                   /\ pc' = [pc EXCEPT ![r] = "fetch"]
                   /\ UNCHANGED result
              ELSE /\ result' = [result EXCEPT ![r] = o]
                   /\ pc' = [pc EXCEPT ![r] = "done"]
                   /\ UNCHANGED calls
  /\ UNCHANGED <<route, request, alsStore, response, logLine>>

\* The transport calls a tool of the second route's handler.
InvokeStubTool(r, catalogue) ==
  /\ pc[r] = "bound"
  /\ route[r] = "handler"
  /\ \E c \in catalogue :
       LET inv == [tool |-> c.tool, args |-> c.args, apiKey |-> Undefined]
       IN  /\ invocation' = [invocation EXCEPT ![r] = inv]
           /\ result' = [result EXCEPT ![r] = StubHandler(inv)]
  /\ pc' = [pc EXCEPT ![r] = "done"]
  /\ UNCHANGED <<route, request, alsStore, calls, response, logLine>>

\* A resumption that does not restore the async context: the handler
\* continues after `await fetch` outside the apiKeyStorage.run scope.
FetchSettles_contextLost(r, outcomes) ==
  /\ pc[r] = "fetch"
  /\ \E o \in outcomes :
       LET next == ToolAfterFetch(invocation[r], o)
       IN  /\ response' = [response EXCEPT ![r] = IF IsThrow(o) THEN Undefined ELSE o.ret]
           /\ IF IsAwait(next)
              THEN /\ pc' = [pc EXCEPT ![r] = "json"]
                   /\ UNCHANGED result
              ELSE /\ result' = [result EXCEPT ![r] = next]
                   /\ pc' = [pc EXCEPT ![r] = "done"]
  /\ alsStore' = [alsStore EXCEPT ![r] = Undefined]
  /\ UNCHANGED <<route, request, invocation, calls, logLine>>

\* r's fetch settles and its handler resumes, to its return or to
\* `await response.json()`.
FetchSettles(r, outcomes) ==
  /\ pc[r] = "fetch"
  /\ \E o \in outcomes :
       LET next == ToolAfterFetch(invocation[r], o)
       IN  /\ response' = [response EXCEPT ![r] = IF IsThrow(o) THEN Undefined ELSE o.ret]
           /\ IF IsAwait(next)
              THEN /\ pc' = [pc EXCEPT ![r] = "json"]
                   /\ UNCHANGED result
              ELSE /\ result' = [result EXCEPT ![r] = next]
                   /\ pc' = [pc EXCEPT ![r] = "done"]
  /\ UNCHANGED <<route, request, alsStore, invocation, calls, logLine>>

\* r's response.json() settles and its handler resumes, to its return.
JsonSettles(r) ==
  /\ pc[r] = "json"
  /\ result' = [result EXCEPT ![r] =
                  ToolAfterJson(invocation[r], response[r], ResponseJson(response[r]))]
  /\ pc' = [pc EXCEPT ![r] = "done"]
  /\ UNCHANGED <<route, request, alsStore, invocation, calls, response, logLine>>

\* The response is returned: the run scope ends and nothing of r is kept.
Return(r) ==
  /\ pc[r] = "done"
  /\ pc' = [pc EXCEPT ![r] = "idle"]
  /\ route' = [route EXCEPT ![r] = "none"]
  /\ request' = [request EXCEPT ![r] = Undefined]
  /\ alsStore' = [alsStore EXCEPT ![r] = Undefined]
  /\ invocation' = [invocation EXCEPT ![r] = Undefined]
  /\ calls' = [calls EXCEPT ![r] = << >>]
  /\ response' = [response EXCEPT ![r] = Undefined]
  /\ result' = [result EXCEPT ![r] = Undefined]
  /\ logLine' = [logLine EXCEPT ![r] = Undefined]

OthersIdle(r) == \A q \in Req \ {r} : pc[q] = "idle"

\* Every tool, argument and backend outcome, one request at a time.
Next ==
  \E r \in Req :
    \/ OthersIdle(r) /\ GET(r, AuthHeaders)
    \/ OthersIdle(r) /\ POST(r, AuthHeaders)
    \/ OthersIdle(r) /\ DELETE(r, AuthHeaders)
    \/ OthersIdle(r) /\ Handler(r, Methods, AuthHeaders)
    \/ OthersIdle(r) /\ InvokeMcpTool(r, McpCalls)
    \/ OthersIdle(r) /\ InvokeStubTool(r, StubCalls)
    \/ OthersIdle(r) /\ FetchSettles(r, Outcomes)
    \/ OthersIdle(r) /\ JsonSettles(r)
    \/ OthersIdle(r) /\ Return(r)

Spec == Init /\ [][Next]_vars

\* Requests in progress together, interleaved at every suspension point
\* (tool calls arrive by POST).
NextConcurrent ==
  \E r \in Req :
    \/ POST(r, FewAuthHeaders)
    \/ Handler(r, {"POST"}, FewAuthHeaders)
    \/ InvokeMcpTool(r, FewMcpCalls)
    \/ InvokeStubTool(r, FewStubCalls)
    \/ FetchSettles(r, FewOutcomes)
    \/ JsonSettles(r)
    \/ Return(r)

SpecConcurrent == Init /\ [][NextConcurrent]_vars

\* hopxFetch called directly, with options a caller could pass (its own
\* headers among them), up to its await: the fetch it issues, or its throw.
CallHopxFetch(r, endpoints, options) ==
  /\ pc[r] = "bound"
  /\ route[r] = "handleRequest"
  /\ \E e \in endpoints, opt \in options :
       LET o == hopxFetch(r, e, opt)
       IN  /\ invocation' = [invocation EXCEPT ![r] =
                               [tool |-> "hopxFetch",
                                args |-> [endpoint |-> e, options |-> opt],
                                apiKey |-> Undefined]]
           /\ calls' = [calls EXCEPT ![r] = IF IsFetch(o) THEN Append(@, o.fetch) ELSE @]
           /\ result' = [result EXCEPT ![r] = o]
  /\ pc' = [pc EXCEPT ![r] = "done"]
  /\ UNCHANGED <<route, request, alsStore, response, logLine>>

\* The tools, and hopxFetch on its own under every option drawn.
NextHopxFetch ==
  \/ Next
  \/ \E r \in Req : OthersIdle(r) /\ CallHopxFetch(r, CallerEndpoints, CallerOptions)

SpecHopxFetch == Init /\ [][NextHopxFetch]_vars
----------------------------------------------------------------------------
(* Vocabulary of the claims. *)

Started(r) == pc[r] # "idle"
Done(r) == pc[r] = "done"
FirstRoute(r) == route[r] = "handleRequest"
ToolIs(r, t) == invocation[r] # Undefined /\ invocation[r].tool = t

\* The request carries `Authorization: Bearer <token>` with a token of Tokens.
CarriesToken(r) == \E tok \in Tokens : request[r].authorization = BearerOf(tok)

ReturnedText(r) == "ret" \in DOMAIN result[r] /\ "content" \in DOMAIN result[r].ret
TextOf(r) == result[r].ret.content
TextHas(r, part) == \E i \in DOMAIN TextOf(r) : TextOf(r)[i] = part

BearerHeader(tok) == <<Lit("Bearer "), Interp(Chars(tok))>>

----------------------------------------------------------------------------
(* C1: two requests handled concurrently with distinct bearer tokens:      *)
(* under every interleaving of their suspension points, every outbound     *)
(* call issued while handling a request carries that request's own token   *)
(* in its Authorization header, never the other's; and a call is issued    *)
(* only for a request that carries a token.  (SpecConcurrent)              *)
C1_CallsCarryOwnToken ==
  \A r \in Req :
    \A i \in DOMAIN calls[r] :
      /\ CarriesToken(r)
      /\ \A tok \in Tokens :
           request[r].authorization = BearerOf(tok)
             => calls[r][i].headers["authorization"] = BearerHeader(tok)

\* Two requests with different tokens, both suspended with a call issued.
C1_Witness ==
  \E r, q \in Req :
    /\ request[r] # Undefined /\ request[r].authorization = BearerOf(TokenA)
    /\ request[q] # Undefined /\ request[q].authorization = BearerOf(TokenB)
    /\ pc[r] = "fetch" /\ pc[q] = "json"
    /\ Len(calls[r]) = 1 /\ Len(calls[q]) = 1

(* C2: a request with no Authorization header, or a non-Bearer one, reads  *)
(* an absent credential (null) from getApiKey() at every point of its      *)
(* life and issues no call, whatever other requests are in progress or     *)
(* were completed before; getApiKey() outside any apiKeyStorage.run scope  *)
(* (an idle slot, a second-route request) reads null.  (SpecConcurrent)    *)
C2_NoTokenReadsAbsent ==
  \A r \in Req :
    (~Started(r) \/ ~FirstRoute(r) \/ ~CarriesToken(r))
      => getApiKey(r) = Null /\ calls[r] = << >>

\* A header-less request has completed its tool while another request,
\* bound to a token, is suspended in its fetch.
C2_Witness ==
  \E r, q \in Req :
    /\ Done(r) /\ FirstRoute(r) /\ request[r].authorization = Null
    /\ pc[q] = "fetch" /\ alsStore[q] = Chars(TokenA)

(* C3: any tool invoked while no credential is bound returns a text that   *)
(* indicates missing authentication and issues zero outbound calls.        *)
(* A text counts as indicating it when it holds the missing-key message    *)
(* or any literal that names the API key.                                  *)
KeyLiterals ==
  {Lit(NoKeyText), Interp(Str(NoKeyMessage)),
   Lit("HOPX MCP server is running. Note: This is a serverless deployment. Use with HOPX API key for actual sandbox operations."),
   Lit("). This requires the hopx-ai Python SDK and HOPX_API_KEY environment variable."),
   Lit(")\n\nThis requires hopx-ai SDK and HOPX_API_KEY."),
   Lit("\n\nRequires: hopx-ai SDK and HOPX_API_KEY")}
C3_NoCredentialMeansAuthText ==
  \A r \in Req :
    (Done(r) /\ getApiKey(r) = Null)
      => /\ calls[r] = << >>
         /\ ReturnedText(r)
         /\ \E k \in KeyLiterals : TextHas(r, k)

(* C4: every tool invoked for a request that carries a bearer token, with  *)
(* valid arguments, has issued exactly one outbound call when it returns.  *)
C4_ExactlyOneCall ==
  \A r \in Req : (Done(r) /\ CarriesToken(r)) => Len(calls[r]) = 1

(* C5: every tool handler is total: whatever its outbound call does        *)
(* (success, non-2xx, transport failure, missing credential, unparseable   *)
(* body), the handler completes by returning a text content result, never  *)
(* by an exception; and it has no result before it completes.              *)
C5_HandlersReturnText ==
  \A r \in Req :
    /\ Done(r) => ReturnedText(r)
    /\ ~Done(r) => result[r] = Undefined

\* A first-route handler returned its catch text after response.json() threw.
C5_Witness ==
  \E r \in Req :
    /\ Done(r) /\ ToolIs(r, "get_sandbox")
    /\ response[r] # Undefined /\ response[r].body = RawText(HtmlPage)
    /\ result[r] = Ret(TextResult(<<Lit("Failed to get sandbox: "),
                                    Interp(Str(SyntaxErrorMessage))>>))

(* C6: for every tool, when the backend completes with a non-2xx status,   *)
(* the returned text contains the status or the body of that response.     *)
(* An empty body counts as contained.                                      *)
TextHasResponse(r) ==
  LET b == response[r].body
  IN  \/ TextHas(r, Interp(Num(response[r].status)))
      \/ "jsontext" \in DOMAIN b
           /\ (TextHas(r, JSONstringify(b.jsontext)) \/ TextHas(r, JSONpretty(b.jsontext)))
      \/ "raw" \in DOMAIN b /\ (b.raw = "" \/ TextHas(r, Lit(b.raw)))
C6_Non2xxTextHasBody ==
  \A r \in Req :
    (Done(r) /\ response[r] # Undefined /\ ~Ok(response[r]))
      => ReturnedText(r) /\ TextHasResponse(r)

(* C7: delete_sandbox with a bound credential, when the backend answers    *)
(* 404, returns text beginning "Error deleting sandbox: " that contains    *)
(* the 404 body.                                                           *)
C7_Delete404Text ==
  \A r \in Req :
    (Done(r) /\ FirstRoute(r) /\ ToolIs(r, "delete_sandbox")
       /\ response[r] # Undefined /\ response[r].status = 404)
      => /\ ReturnedText(r)
         /\ TextOf(r)[1] = Lit("Error deleting sandbox: ")
         /\ TextHasResponse(r)

(* C8: create_sandbox({template_id: T}) with the other fields omitted      *)
(* issues POST /v1/sandboxes with JSON body {template_id: T,               *)
(* timeout_seconds: 600, internet_access: true}; on success the text       *)
(* contains the object the backend echoed.                                 *)
OnlyTemplateId(args) ==
  \A k \in DOMAIN args : k # "template_id" => args[k] = Undefined
C8_CreateSandboxDefaults ==
  \A r \in Req :
    (Done(r) /\ FirstRoute(r) /\ ToolIs(r, "create_sandbox") /\ CarriesToken(r)
       /\ OnlyTemplateId(invocation[r].args))
      => /\ Len(calls[r]) = 1
         /\ calls[r][1].method = Str("POST")
         /\ calls[r][1].url = <<Lit(HOPX_API_BASE), Lit("/v1/sandboxes")>>
         /\ calls[r][1].body =
              JSONstringify(Obj([template_id |-> invocation[r].args.template_id,
                                 timeout_seconds |-> Num(600),
                                 internet_access |-> Bool(TRUE)]))
         /\ (response[r] # Undefined /\ Ok(response[r])
               /\ "jsontext" \in DOMAIN response[r].body)
              => TextHas(r, JSONpretty(response[r].body.jsontext))

(* C9: omitted optional fields get the documented defaults and supplied    *)
(* values (0 included) go out unchanged: the timeout execute_code and      *)
(* run_command emit is the supplied one, else 30; the path file_list       *)
(* sends is the supplied one, else /workspace.                             *)
\* The part of a text that follows the first part equal to `before`.
PartAfter(parts, before) ==
  parts[1 + CHOOSE i \in DOMAIN parts :
              parts[i] = before /\ \A j \in 1..(i - 1) : parts[j] # before]
\* The timeout a completed execute_code / run_command put out: in the body
\* of its call, or (second route) in its text.
EmittedTimeout(r) ==
  IF calls[r] # << >>
  THEN calls[r][1].body.json.obj.timeout
  ELSE PartAfter(TextOf(r), Lit("\", timeout=")).val
C9_DefaultsAndExplicitValues ==
  \A r \in Req :
    (Done(r) /\ CarriesToken(r))
      => /\ (ToolIs(r, "execute_code") \/ ToolIs(r, "run_command"))
              => EmittedTimeout(r) = Nullish(Field(invocation[r].args, "timeout"), Num(30))
         /\ (ToolIs(r, "file_list") /\ FirstRoute(r))
              => calls[r][1].url[5] =
                   Encoded(Nullish(Field(invocation[r].args, "path"), Str("/workspace")))

(* C10: get_sandbox invoked twice with identical input under the same      *)
(* credential issues two identical outbound calls (one each) and, given    *)
(* identical backend responses, returns identical text, wherever the two   *)
(* invocations stand relative to each other and to other requests.         *)
(* (SpecConcurrent)                                                        *)
SameGetSandbox(r, q) ==
  /\ r # q
  /\ FirstRoute(r) /\ FirstRoute(q)
  /\ ToolIs(r, "get_sandbox") /\ invocation[r] = invocation[q]
  /\ alsStore[r] = alsStore[q] /\ Truthy(alsStore[r])
C11_BindsBearerTokenElseAbsent ==
  \A r \in Req :
    (Started(r) /\ FirstRoute(r))
      => /\ \A tok \in Tokens :
              request[r].authorization = BearerOf(tok) => alsStore[r] = Chars(tok)
         /\ ~CarriesToken(r) => alsStore[r] = Null

\* handleRequest has bound the token of a DELETE request's Bearer header.
C11_Witness ==
  \E r \in Req :
    /\ pc[r] = "bound" /\ FirstRoute(r) /\ request[r].method = "DELETE"
    /\ request[r].authorization = BearerOf(TokenShort)
    /\ alsStore[r] = Chars(TokenShort)

(* C12: the outbound host is fixed per tool: the sandbox/template          *)
(* lifecycle tools call the fixed control-plane host; the sandbox-scoped   *)
(* tools call a host derived from the sandbox id, <sandboxId>.<domain>.    *)
LifecycleTools ==
  {"list_sandboxes", "create_sandbox", "get_sandbox", "delete_sandbox", "list_templates"}
SandboxScopedTools ==
  {"execute_code", "run_command", "file_read", "file_write", "file_list",
   "file_delete", "get_system_metrics"}
C12_HostFixedPerTool ==
  \A r \in Req :
    \A i \in DOMAIN calls[r] :
      /\ invocation[r].tool \in LifecycleTools
           => calls[r][i].url[1] = Lit(HOPX_API_BASE)
      /\ invocation[r].tool \in SandboxScopedTools
           => /\ calls[r][i].url[1] = Lit("https://")
              /\ calls[r][i].url[2] = Interp(invocation[r].args.sandbox_id)
              /\ calls[r][i].url[3] # Lit("/v1/sandboxes/")

(* C13: execute_code selects exactly one of four backend endpoints         *)
(* (isolated, persistent, rich, background) by its mode field, isolated    *)
(* when mode is omitted, and issues exactly one outbound call to it: the   *)
(* call made under one mode is not the call any other mode would make.     *)
ExecModes == {Str("isolated"), Str("persistent"), Str("rich"), Str("background")}
ModeOf(args) == Nullish(Field(args, "mode"), Str("isolated"))
WithMode(args, m) ==
  [k \in DOMAIN args \cup {"mode"} |-> IF k = "mode" THEN m ELSE args[k]]
C13_ExecuteCodeModeSelectsEndpoint ==
  \A r \in Req :
    (Done(r) /\ CarriesToken(r) /\ ToolIs(r, "execute_code"))
      => /\ Len(calls[r]) = 1
         /\ \A m \in ExecModes \ {ModeOf(invocation[r].args)} :
              calls[r][1].url #
                <<Lit(HOPX_API_BASE)>>
                  \o execute_code_request(WithMode(invocation[r].args, m)).endpoint

----------------------------------------------------------------------------
(* Progress.  A handler that can run does run: the event loop resumes a    *)
(* handler whose awaited promise has settled, and the transport dispatches *)
(* the tool call of a request it has accepted.  When a fetch settles is    *)
(* the network's doing: hopxFetch passes fetch no AbortSignal and starts   *)
(* no timer, so no step of the program ends the wait, and no fairness is   *)
(* stated for FetchSettles.                                                *)
Fairness ==
  \A r \in Req :
    /\ WF_vars(OthersIdle(r) /\ InvokeMcpTool(r, McpCalls))
    /\ WF_vars(OthersIdle(r) /\ InvokeStubTool(r, StubCalls))
    /\ WF_vars(OthersIdle(r) /\ JsonSettles(r))
    /\ WF_vars(OthersIdle(r) /\ Return(r))

SpecLive == Init /\ [][Next]_vars /\ Fairness

(* C14: every outbound call's network wait is bounded by the tool's        *)
(* timeout: a handler waiting on its call eventually returns a text        *)
(* result, even if the backend never responds.  (SpecLive)                 *)
C14_NetworkWaitBounded ==
  \A r \in Req : (pc[r] = "fetch") ~> (Done(r) /\ ReturnedText(r))


(* C15: the exported GET, POST and DELETE are the same operation: for any  *)
(* request, whatever its method, the transport handler runs inside a       *)
(* credential context bound to the credential extracted from the request:  *)
(* the token of its Bearer header, else absent.                            *)
C15_EntryPointsBindCredential ==
  \A r \in Req :
    \A m \in Methods :
      (Started(r) /\ request[r].method = m)
        => /\ alsStore[r] # Undefined
           /\ \A tok \in Tokens :
                request[r].authorization = BearerOf(tok) => getApiKey(r) = Chars(tok)
           /\ ~CarriesToken(r) => getApiKey(r) = Null


(* C16: for every tool, whenever the outcome is a non-2xx response, a      *)
(* transport failure or a missing credential, the returned text begins     *)
(* with "Error" or with "Failed to" and names the attempted action.        *)
\* The leading literals of the source's texts that begin that way.
BeginsErrorOrFailed ==
  {ErrorLabel(t) : t \in McpTools \ {"health"}}
  \cup {FailedLabel(t) : t \in McpTools \ {"health"}}
  \cup {NoKeyText}
TransportFailed(r) == Done(r) /\ calls[r] # << >> /\ response[r] = Undefined
Non2xx(r) == Done(r) /\ response[r] # Undefined /\ ~Ok(response[r])
NoCredential(r) == Done(r) /\ getApiKey(r) = Null
C16_FailureTextPrefix ==
  \A r \in Req :
    (TransportFailed(r) \/ Non2xx(r) \/ NoCredential(r))
      => /\ ReturnedText(r)
         /\ \E l \in BeginsErrorOrFailed : TextOf(r)[1] = Lit(l)


(* C17: the credential binding is read-only and fixed for the scope of one *)
(* request: from entry to return, across every suspension and resumption   *)
(* and whatever other requests do meanwhile, getApiKey() on the request's  *)
(* path reads the value bound at entry; the read health makes itself and   *)
(* the read nested in hopxFetch observe that same value.  (SpecConcurrent) *)
C17_BindingFixedForRequest ==
  [][\A r \in Req :
       (Started(r) /\ pc'[r] # "idle")
         => /\ getApiKey(r)' = getApiKey(r)
            /\ (invocation'[r] # Undefined /\ invocation'[r].tool = "health")
                 => invocation'[r].apiKey = getApiKey(r)
            /\ \A i \in DOMAIN calls'[r] :
                 calls'[r][i].headers["authorization"]
                   = <<Lit("Bearer "), Interp(getApiKey(r))>>]_vars

\* health, bound to one token, is past two suspension points while a request
\* bound to another token has completed.
C17_Witness ==
  \E r, q \in Req :
    /\ pc[r] = "done" /\ ToolIs(r, "health") /\ response[r] # Undefined
    /\ invocation[r].apiKey = Chars(TokenB) /\ alsStore[r] = Chars(TokenB)
    /\ Done(q) /\ alsStore[q] = Chars(TokenA) /\ Len(calls[q]) = 1


(* C18: every outbound call sent by hopxFetch carries Authorization:       *)
(* Bearer <bound token> and Content-Type: application/json, whatever       *)
(* headers the caller passed in options: a caller's own values for those   *)
(* two headers, under either spelling of the name, are overwritten, and    *)
(* its other headers are kept.  (SpecHopxFetch)                            *)
C18_AuthAndContentTypeSet ==
  \A r \in Req :
    \A i \in DOMAIN calls[r] :
      LET h == calls[r][i].headers
      IN  /\ h["authorization"] = <<Lit("Bearer "), Interp(alsStore[r])>>
          /\ Truthy(alsStore[r])
          /\ h["content-type"] = <<Lit("application/json")>>
          /\ DOMAIN h \cap {"Authorization", "Content-Type"} = {}
          /\ ToolIs(r, "hopxFetch")
               => LET given == Field(invocation[r].args.options, "headers")
                  IN  given # Undefined
                        => \A k \in DOMAIN given :
                             HeaderName(k) \notin {"authorization", "content-type"}
                               => h[k] = given[k]

\* hopxFetch was called with the caller's own Authorization and another
\* header, and its call carries the bound token and the other header.
C18_Witness ==
  \E r \in Req :
    /\ Done(r) /\ ToolIs(r, "hopxFetch") /\ alsStore[r] = Chars(TokenA)
    /\ Field(invocation[r].args.options, "headers") =
         [authorization |-> <<Lit("Basic dXNlcjpwYXNz")>>,
          accept |-> <<Lit("application/json")>>]
    /\ Len(calls[r]) = 1
    /\ calls[r][1].headers =
         [k \in {"authorization", "content-type", "accept"} |->
            IF k = "authorization" THEN BearerHeader(TokenA)
            ELSE <<Lit("application/json")>>]


(* C19: an outbound call is never retried: when the network send fails,    *)
(* the invocation has made exactly one call attempt, makes no further      *)
(* one, and returns a "Failed to ..." text carrying the cause's message.   *)
BeginsFailedTo == {FailedLabel(t) : t \in McpTools \ {"health"}}
C19_NoRetryFailedToText ==
  \A r \in Req :
    TransportFailed(r)
      => /\ Len(calls[r]) = 1
         /\ ReturnedText(r)
         /\ \E l \in BeginsFailedTo : TextOf(r)[1] = Lit(l)
         /\ TextOf(r)[2] = Interp(FetchFailed.message)


(* C20: within one tool invocation the events are strictly ordered: the    *)
(* step that issues the outbound call leaves the handler suspended with no *)
(* result; the result text is formatted only in a step that leaves no call *)
(* pending; the handler returns only after its result is formatted, never  *)
(* while its call is pending.                                              *)
C20_CallThenFormatThenReturn ==
  [][\A r \in Req :
       /\ (calls'[r] # calls[r] /\ calls'[r] # << >>)
            => pc'[r] = "fetch" /\ result'[r] = Undefined
       /\ pc'[r] = "fetch" => result'[r] = Undefined
       /\ (result[r] = Undefined /\ result'[r] # Undefined)
            => /\ pc'[r] = "done"
               /\ calls'[r] = calls[r]
               /\ calls[r] # << >> => pc[r] \in {"fetch", "json"}
       /\ (Started(r) /\ pc'[r] = "idle")
            => pc[r] = "done" /\ result[r] # Undefined]_vars

\* create_sandbox has returned its success text after its one call settled.
C20_Witness ==
  \E r \in Req :
    /\ Done(r) /\ FirstRoute(r) /\ ToolIs(r, "create_sandbox")
    /\ Len(calls[r]) = 1 /\ response[r] = Resp(200, JsonText(SandboxBody))
    /\ result[r] = Ret(TextResult(<<Lit("Sandbox created successfully:\n"),
                                    JSONpretty(SandboxBody)>>))


(* C21: for every tool, whenever the backend completes the outbound call   *)
(* with a 2xx status, the returned text is the tool's success formatting,  *)
(* never one that begins with an error label or a failure label; also      *)
(* when the 2xx body is empty or not parseable as JSON.                    *)
FailureLabels ==
  {ErrorLabel(t) : t \in McpTools \ {"health"}} \cup {FailedLabel(t) : t \in McpTools}
C21_SuccessOn2xx ==
  \A r \in Req :
    (Done(r) /\ response[r] # Undefined /\ Ok(response[r]))
      => /\ ReturnedText(r)
         /\ \A l \in FailureLabels : TextOf(r)[1] # Lit(l)


(* C22: a request whose Authorization header is exactly "Bearer " followed *)
(* by nothing.  As stated: handleRequest binds the empty string, and every *)
(* tool invoked under that binding issues zero outbound calls and returns  *)
(* the missing-API-key text.                                               *)
BareBearer(r) ==
  Started(r) /\ FirstRoute(r) /\ request[r].authorization = Chars(BearerPrefix)
MissingKeyText(r) ==
  ReturnedText(r) /\ (TextHas(r, Lit(NoKeyText)) \/ TextHas(r, Interp(Str(NoKeyMessage))))
C22_BareBearerBindsEmptyString ==
  \A r \in Req :
    BareBearer(r)
      => /\ alsStore[r] = Chars(<< >>)
         /\ calls[r] = << >>
         /\ Done(r) => MissingKeyText(r)

(* C22, as the code has it: the header value reaches handleRequest without *)
(* its trailing space, as "Bearer", which does not start with "Bearer ";   *)
(* handleRequest binds null, and every tool invoked under that binding     *)
(* issues zero outbound calls and returns the missing-API-key text.        *)
C22_BareBearerBindsAbsent ==
  \A r \in Req :
    BareBearer(r)
      => /\ HeadersGet(request[r]) = Chars(<<"B", "e", "a", "r", "e", "r">>)
         /\ alsStore[r] = Null
         /\ logLine[r].hasAuth = FALSE
         /\ calls[r] = << >>
         /\ Done(r) => MissingKeyText(r)

\* get_sandbox, invoked for a request whose header was "Bearer ", returned
\* the missing-key text without a call.
C22_Witness ==
  \E r \in Req :
    /\ BareBearer(r) /\ Done(r) /\ ToolIs(r, "get_sandbox") /\ calls[r] = << >>
    /\ result[r] = Ret(TextResult(<<Lit("Failed to get sandbox: "),
                                    Interp(Str(NoKeyMessage))>>))


InterpolatedChars(parts) ==
  {parts[i].val.chars :
     i \in {j \in DOMAIN parts :
              "val" \in DOMAIN parts[j] /\ "chars" \in DOMAIN parts[j].val}}
KeyPrefix(r) ==
  IF Truthy(alsStore[r])
  THEN {SubSeq(alsStore[r].chars, 1,
               IF Len(alsStore[r].chars) < 8 THEN Len(alsStore[r].chars) ELSE 8)}
  ELSE {}
====
